---- MODULE Spec2Model ----
(***************************************************************************)
(* The resumable annotation driver of scripts/1.py: the startup checks,    *)
(* load_processed_files, the speaker / file loops of __main__ and          *)
(* process_wav_file with transcribe_one.  Paths and manifest lines are     *)
(* sequences of string tokens, so that writing a line (line 60) and        *)
(* reading its first field back (lines 14-17) are two different            *)
(* computations.                                                           *)
(***************************************************************************)
EXTENDS Integers, Sequences, FiniteSets, TLC

VARIABLES
    \* ---- the file system, which outlives a run
    manifestExists,   \* os.path.exists(output_file)
    manifest,         \* the lines of output_file, each ending in "\n"
    saved,            \* processed audio on disk: save_path -> the source audio it holds
    \* ---- one run of the script
    pc,               \* position of the run
    languages,        \* args.languages
    input_dir,        \* args.input_dir
    cuda,             \* torch.cuda.is_available() in this run
    lang2token,       \* lines 75-80
    target_sr,        \* lines 89-94
    processed_files,  \* line 99
    speaker_names,    \* line 101
    total_files,      \* line 102
    processed_count,  \* line 105
    sIdx,             \* position of the `for speaker` loop in speaker_names
    wav_files,        \* line 108
    i,                \* line 109
    cur,              \* the arguments and locals of the running process_wav_file
    exit_code,        \* exit status of the run, -1 while it runs
    stderr,           \* what the run wrote last on the error stream
    warned,           \* the warning of line 117 was printed
    \* ---- history of the run, read by the properties only
    runs,             \* number of runs started
    startManifest,    \* the manifest when the run started
    force,            \* the command line carried a force-reprocess option
    visited,          \* <<speaker, wavfile>> of every call of process_wav_file, in order
    succeeded,        \* the lines of the calls that returned through line 61, in order
    transcribed,      \* the save_paths transcribe_one was called on
    written,          \* the save_paths torchaudio.save wrote
    killedAt,         \* where an external kill hit the run
    prevOrder,        \* `visited` of the run before, when it completed (kept by SpecTwice)
                      \* or was killed (kept by SpecResume)
    recorded,         \* <<speaker, wavfile>> whose transcript an earlier run recorded
    fresh,            \* <<speaker, wavfile>> whose transcript this run recorded
    outcomeOf,        \* <<speaker, wavfile>> -> how its last call in this run returned
    \* ---- a second instance of the script, running at the same time
    other             \* whether it runs, its input, its processed set and what it recorded

vars == <<manifestExists, manifest, saved, pc, languages, input_dir, cuda, lang2token,
          target_sr, processed_files, speaker_names, total_files, processed_count,
          sIdx, wav_files, i, cur, exit_code, stderr, warned, runs, startManifest,
          force, visited, succeeded, transcribed, written, killedAt,
          prevOrder, recorded, fresh, outcomeOf, other>>

-----------------------------------------------------------------------------
\* Bounds of the model

\* Number of runs of the script in one behaviour.
MaxRuns == 2

-----------------------------------------------------------------------------
\* Strings as token sequences

Last(s) == s[Len(s)]

Range(s) == {s[k] : k \in 1..Len(s)}

\* All orders in which a listing may return the members of S.
Orders(S) == {s \in [1..Cardinality(S) -> S] : \A a, b \in 1..Cardinality(S) : s[a] = s[b] => a = b}

IsPrefix(s, t) == Len(s) <= Len(t) /\ SubSeq(t, 1, Len(s)) = s

\* str.endswith / str.startswith on a one-token suffix or prefix.
EndsWith(name, tok) == Len(name) > 0 /\ Last(name) = tok

StartsWith(name, tok) == Len(name) > 0 /\ name[1] = tok

Whitespace == {" ", "\n"}

\* str.strip(): whitespace removed at both ends.
RECURSIVE LStrip(_)
LStrip(s) == IF Len(s) > 0 /\ s[1] \in Whitespace THEN LStrip(Tail(s)) ELSE s

RECURSIVE RStrip(_)
RStrip(s) == IF Len(s) > 0 /\ Last(s) \in Whitespace THEN RStrip(SubSeq(s, 1, Len(s) - 1)) ELSE s

Strip(s) == RStrip(LStrip(s))

\* str.split(sep): the fields between the separators, always at least one.
Split(s, sep) ==
    LET bounds == {k \in 1..Len(s) : s[k] = sep} \cup {0, Len(s) + 1}
        nth(j) == CHOOSE b \in bounds : Cardinality({c \in bounds : c < b}) = j
    IN  [j \in 1..(Cardinality(bounds) - 1) |-> SubSeq(s, nth(j - 1) + 1, nth(j) - 1)]

\* os.path.join of a directory and a relative name.
Join(dir, name) == IF EndsWith(dir, "/") THEN dir \o name ELSE dir \o <<"/">> \o name

\* str(i) for the indices the model reaches.
Digits == <<"0", "1", "2", "3">>

Str(n) == Digits[n + 1]

-----------------------------------------------------------------------------
\* The input tree and the collaborators' answers

\* Speaker directories: one with a plain name, one whose name holds the
\* manifest's field separator, one that holds no audio.
SpeakerA == <<"ann">>

SpeakerB == <<"bob", "|", "jr">>

SpeakerC == <<"cy">>

PlainFile == <<"readme", ".txt">>

\* Values of --input_dir: two directories of speakers, a directory without
\* any speaker, and a path that does not exist.
InDir == <<"voices">>

OtherDir == <<"more">>

EmptyDir == <<"empty">>

InputDirs == {InDir, OtherDir, EmptyDir, <<"missing">>}

DirExists(dir) == dir \in {InDir, OtherDir, EmptyDir}

\* The entries os.listdir(args.input_dir) returns, in any order.
RootEntries(dir) ==
    IF dir = InDir THEN {SpeakerA, PlainFile}
    ELSE IF dir = OtherDir THEN {SpeakerB, SpeakerC}
    ELSE {PlainFile}

\* os.path.isdir
IsDir(path) == path \in {Join(InDir, SpeakerA), Join(OtherDir, SpeakerB), Join(OtherDir, SpeakerC)}

\* The files a speaker directory holds before any run.
SourceFiles(sp) ==
    IF sp = SpeakerA THEN {<<"x", ".wav">>, <<"y", ".wav">>, <<"notes", ".txt">>}
    ELSE IF sp = SpeakerB THEN {<<"z", ".wav">>}
    ELSE {}

\* Values of --languages.
LanguageArgs == {"CJE", "CJ", "C", "E"}

\* Languages the model may detect.
Langs == {"zh", "ja", "en", "fr"}

\* (sample rate, frames) of the audio a source file may hold.
AudioShapes ==
    { <<16000, 192000>>, <<16000, 320000>>, <<16000, 320001>>, <<16000, 400000>>,
      <<22050, 441000>>, <<22050, 441001>> }

\* The sampling rate of the config file, when it has one.
ConfigRates == {22050}

\* The text the model decodes from a processed audio: it depends on the audio.
Transcript(audio) == <<"words-of-", audio[2][1]>>

-----------------------------------------------------------------------------
\* Pure functions of the script

DefaultSr == 16000

DurationCeiling == 20

\* f"processed_{i}.wav"
ProcessedName(n) == <<"processed_", Str(n), ".wav">>

\* The filter of lines 102 and 108.
IsSourceWav(f) == EndsWith(f, ".wav") /\ ~StartsWith(f, "processed_")

\* Mutant of Lang2Token: every valid selector gets the map of CJE.
Lang2TokenAll(arg) ==
    IF arg \in {"CJE", "CJ", "C"}
    THEN [l \in {"zh", "ja", "en"} |->
            IF l = "zh" THEN "[ZH]" ELSE IF l = "ja" THEN "[JA]" ELSE "[EN]"]
    ELSE [l \in {} |-> ""]

\* lines 75-80; the empty map stands for the `else` branch.
Lang2Token(arg) ==
    IF arg = "CJE" THEN [l \in {"zh", "ja", "en"} |->
                           IF l = "zh" THEN "[ZH]" ELSE IF l = "ja" THEN "[JA]" ELSE "[EN]"]
    ELSE IF arg = "CJ" THEN [l \in {"zh", "ja"} |-> IF l = "zh" THEN "[ZH]" ELSE "[JA]"]
    ELSE IF arg = "C" THEN [l \in {"zh"} |-> "[ZH]"]
    ELSE [l \in {} |-> ""]

\* Mutant of ValidLanguages: the `else` branch of line 81 is missing.
ValidLanguagesAny(arg) == TRUE

\* The selectors that reach one of the branches of lines 75-80.
ValidLanguages(arg) == arg \in {"CJE", "CJ", "C"}

\* lines 15-17 for one line of the file; split always yields a first field.
FirstField(line) ==
    LET parts == Split(Strip(line), "|")
    IN  IF Len(parts) >= 1 THEN {parts[1]} ELSE {}

\* Mutant of LoadProcessedFiles: the existence test is inverted.
LoadProcessedFilesInverted(exists, lines) ==
    IF ~exists THEN UNION {FirstField(lines[k]) : k \in 1..Len(lines)} ELSE {}

\* load_processed_files, lines 9-18.
LoadProcessedFiles(exists, lines) ==
    IF exists THEN UNION {FirstField(lines[k]) : k \in 1..Len(lines)} ELSE {}

\* Mutant of ManifestLine: the token is written before the text only.
ManifestLineOpenTag(save_path, speaker, token, text) ==
    save_path \o <<"|">> \o speaker \o <<"|">> \o <<token>> \o text \o <<"\n">>

\* The line written at lines 58-60.
ManifestLine(save_path, speaker, token, text) ==
    save_path \o <<"|">> \o speaker \o <<"|">> \o <<token>> \o text \o <<token>> \o <<"\n">>

RECURSIVE Gcd(_, _)
Gcd(a, b) == IF b = 0 THEN a ELSE Gcd(b, a % b)

\* Frames after torchaudio's Resample(orig_freq, new_freq), lines 45-46.
Resample(frames, orig, new) ==
    IF orig = new THEN frames
    ELSE LET g == Gcd(orig, new)
             o == orig \div g
             n == new \div g
         IN  (n * frames + o - 1) \div o

\* Mutants of TooLong: the check is missing; the comparison is >=.
TooLongNever(frames, sr) == FALSE

TooLongAtCeiling(frames, sr) == frames >= DurationCeiling * sr

\* duration = wav.shape[1] / target_sr; duration > 20.0, lines 47-48.
TooLong(frames, sr) == frames > DurationCeiling * sr

\* The entries of a speaker directory: its source files and the processed
\* audio the runs have written there.
DirEntries(sp) ==
    SourceFiles(sp) \cup
    {ProcessedName(n) : n \in {m \in 0..(Len(Digits) - 1) :
                                  Join(Join(input_dir, sp), ProcessedName(m)) \in DOMAIN saved}}

\* The filtered listing of line 108, for one order of os.listdir.
Filtered(listing) == SelectSeq(listing, IsSourceWav)

\* The source WAV files under a directory, and the number of them os.walk
\* counts at lines 102-103.
Candidates(dir) ==
    UNION {{<<sp, f>> : f \in {g \in SourceFiles(sp) : IsSourceWav(g)}} :
              sp \in {d \in RootEntries(dir) : IsDir(Join(dir, d))}}

TotalFiles(dir) == Cardinality(Candidates(dir))

-----------------------------------------------------------------------------
\* The state after construction: nothing has run, no manifest, no processed audio.

NoCall ==
    [wav_path |-> <<>>, save_path |-> <<>>, speaker |-> <<>>, wavfile |-> <<>>,
     sr |-> 0, frames |-> 0, lang |-> "", text |-> <<>>, outcome |-> "",
     \* read by the properties only: the audio was loaded and resampled, its
     \* duration was at most 20.0 s, and the length of the manifest at the call
     loaded |-> FALSE, within |-> FALSE, before |-> 0]

NoAudio == [p \in {} |-> <<>>]

NoOutcomes == [c \in {} |-> ""]

\* No second instance of the script has run.
NoOther == [on |-> FALSE, dir |-> <<>>, processed |-> {}, done |-> {}]

Stopped == {"idle", "done", "exit", "killed"}

Init ==
    /\ manifestExists = FALSE
    /\ manifest = <<>>
    /\ saved = NoAudio
    /\ pc = "idle"
    /\ languages = ""
    /\ input_dir = <<>>
    /\ cuda = FALSE
    /\ lang2token = Lang2Token("")
    /\ target_sr = 0
    /\ processed_files = {}
    /\ speaker_names = <<>>
    /\ total_files = 0
    /\ processed_count = 0
    /\ sIdx = 0
    /\ wav_files = <<>>
    /\ i = 0
    /\ cur = NoCall
    /\ exit_code = -1
    /\ stderr = ""
    /\ warned = FALSE
    /\ runs = 0
    /\ startManifest = <<>>
    /\ force = FALSE
    /\ visited = <<>>
    /\ succeeded = <<>>
    /\ transcribed = {}
    /\ written = {}
    /\ killedAt = ""
    /\ prevOrder = <<>>
    /\ recorded = {}
    /\ fresh = {}
    /\ outcomeOf = NoOutcomes
    /\ other = NoOther

disk == <<manifestExists, manifest, saved>>

args == <<languages, input_dir, cuda>>

history == <<runs, startManifest, force, visited, succeeded, transcribed, written,
             killedAt, prevOrder, recorded, fresh, outcomeOf>>

\* The process ends and its memory with it.
Gone ==
    /\ languages' = ""
    /\ input_dir' = <<>>
    /\ cuda' = FALSE
    /\ lang2token' = Lang2Token("")
    /\ target_sr' = 0
    /\ processed_files' = {}
    /\ speaker_names' = <<>>
    /\ total_files' = 0
    /\ processed_count' = 0
    /\ sIdx' = 0
    /\ wav_files' = <<>>
    /\ i' = 0
    /\ cur' = NoCall

\* The run ends with a non-zero status and a message on the error stream.
Abort(status, message) ==
    /\ pc' = "exit"
    /\ exit_code' = status
    /\ stderr' = message
    /\ Gone

\* The run goes on to the step `next`.
Goto(next) ==
    /\ pc' = next
    /\ UNCHANGED <<exit_code, stderr>>

-----------------------------------------------------------------------------
\* __main__ up to the loops, lines 66-105

\* The script is started with a command line and an environment.
StartRun ==
    /\ pc \in Stopped
    /\ runs < MaxRuns
    /\ \E lng \in LanguageArgs, dir \in InputDirs, gpu \in BOOLEAN, frc \in BOOLEAN :
          /\ languages' = lng
          /\ input_dir' = dir
          /\ cuda' = gpu
          /\ force' = frc
    /\ pc' = "parse"
    /\ exit_code' = -1
    /\ stderr' = ""
    /\ UNCHANGED <<lang2token, target_sr, processed_files, speaker_names, total_files,
                   processed_count, sIdx, wav_files, i, cur>>
    /\ runs' = runs + 1
    /\ startManifest' = manifest
    /\ recorded' = recorded \cup fresh
    /\ fresh' = {}
    /\ warned' = FALSE
    /\ visited' = <<>>
    /\ succeeded' = <<>>
    /\ transcribed' = {}
    /\ written' = {}
    /\ killedAt' = ""
    /\ prevOrder' = IF pc \in {"done", "killed"} THEN prevOrder ELSE <<>>
    /\ outcomeOf' = NoOutcomes
    /\ UNCHANGED disk
    /\ UNCHANGED other

\* lines 66-72: the parser declares five options; any other, such as a
\* force-reprocess flag, makes parse_args() print a usage error and exit with
\* status 2.
ParseArgs ==
    /\ pc = "parse"
    /\ IF force
       THEN Abort(2, "unrecognized arguments")
       ELSE /\ Goto("languages")
            /\ UNCHANGED <<args, lang2token, target_sr, processed_files, speaker_names,
                           total_files, processed_count, sIdx, wav_files, i, cur>>
    /\ UNCHANGED <<disk, warned, history>>
    /\ UNCHANGED other

\* lines 75-83
SelectLanguages ==
    /\ pc = "languages"
    /\ IF ValidLanguages(languages)
       THEN /\ lang2token' = Lang2Token(languages)
            /\ Goto("cuda")
            /\ UNCHANGED <<args, target_sr, processed_files, speaker_names, total_files,
                           processed_count, sIdx, wav_files, i, cur>>
       ELSE Abort(1, "Invalid language set")
    /\ UNCHANGED <<disk, warned, history>>
    /\ UNCHANGED other

\* lines 85-86: the assertion on torch.cuda.is_available(), then the model is loaded.
CheckCuda ==
    /\ pc = "cuda"
    /\ IF cuda
       THEN /\ Goto("config")
            /\ UNCHANGED <<args, lang2token, target_sr, processed_files, speaker_names,
                           total_files, processed_count, sIdx, wav_files, i, cur>>
       ELSE Abort(1, "AssertionError: Please enable GPU to run Whisper!")
    /\ UNCHANGED <<disk, warned, history>>
    /\ UNCHANGED other

\* lines 88-96: the config file is absent, unreadable, or gives a sampling rate.
LoadConfig ==
    /\ pc = "config"
    /\ \E rate \in ConfigRates \cup {DefaultSr} : target_sr' = rate
    /\ Goto("load_processed")
    /\ UNCHANGED <<disk, args, lang2token, processed_files, speaker_names, total_files,
                   processed_count, sIdx, wav_files, i, cur, warned, history>>
    /\ UNCHANGED other

\* lines 98-99
LoadProcessed ==
    /\ pc = "load_processed"
    /\ processed_files' = LoadProcessedFiles(manifestExists, manifest)
    /\ Goto("list")
    /\ UNCHANGED <<disk, args, lang2token, target_sr, speaker_names, total_files,
                   processed_count, sIdx, wav_files, i, cur, warned, history>>
    /\ UNCHANGED other

\* lines 101-105: os.listdir raises FileNotFoundError when input_dir is missing.
ListSpeakers ==
    /\ pc = "list"
    /\ IF DirExists(input_dir)
       THEN /\ \E listing \in Orders(RootEntries(input_dir)) :
                  speaker_names' = SelectSeq(listing, LAMBDA d : IsDir(Join(input_dir, d)))
            /\ total_files' = TotalFiles(input_dir)
            /\ processed_count' = 0
            /\ sIdx' = 1
            /\ Goto("speakers")
            /\ UNCHANGED <<args, lang2token, target_sr, processed_files, wav_files, i, cur>>
       ELSE Abort(1, "FileNotFoundError")
    /\ UNCHANGED <<disk, warned, history>>
    /\ UNCHANGED other

-----------------------------------------------------------------------------
\* The loops of __main__, lines 106-117

\* line 106 and lines 107-108: the next speaker and its filtered listing, in
\* whatever order os.listdir returns the directory.
NextSpeaker ==
    /\ pc = "speakers"
    /\ IF sIdx <= Len(speaker_names)
       THEN /\ \E listing \in Orders(DirEntries(speaker_names[sIdx])) :
                  wav_files' = Filtered(listing)
            /\ i' = 0
            /\ Goto("files")
       ELSE /\ Goto("end")
            /\ UNCHANGED <<wav_files, i>>
    /\ UNCHANGED <<disk, args, lang2token, target_sr, processed_files, speaker_names,
                   total_files, processed_count, sIdx, cur, warned, history>>
    /\ UNCHANGED other

\* lines 109-112: the next file of the listing and the call of process_wav_file.
NextFile ==
    /\ pc = "files"
    /\ IF i < Len(wav_files)
       THEN LET speaker == speaker_names[sIdx]
                speaker_dir == Join(input_dir, speaker)
                wavfile == wav_files[i + 1]
            IN  /\ cur' = [NoCall EXCEPT !.wav_path = Join(speaker_dir, wavfile),
                                         !.save_path = Join(speaker_dir, ProcessedName(i)),
                                         !.speaker = speaker,
                                         !.wavfile = wavfile,
                                         !.before = Len(manifest)]
                /\ visited' = Append(visited, <<speaker, wavfile>>)
                /\ Goto("gate")
                /\ UNCHANGED sIdx
       ELSE /\ sIdx' = sIdx + 1
            /\ Goto("speakers")
            /\ UNCHANGED <<cur, visited>>
    /\ UNCHANGED <<disk, args, lang2token, target_sr, processed_files, speaker_names,
                   total_files, processed_count, wav_files, i, warned,
                   runs, startManifest, force, succeeded, transcribed, written,
                   killedAt, prevOrder, recorded, fresh, outcomeOf>>
    /\ UNCHANGED other

\* Mutant of Count: a candidate whose transcription failed is tried again.
CountRetrying ==
    /\ pc = "count"
    /\ processed_count' = IF cur.outcome = "transcribe_failed" THEN processed_count
                          ELSE processed_count + 1
    /\ i' = IF cur.outcome = "transcribe_failed" THEN i ELSE i + 1
    /\ cur' = NoCall
    /\ outcomeOf' = [c \in DOMAIN outcomeOf \cup {<<cur.speaker, cur.wavfile>>} |->
                        IF c = <<cur.speaker, cur.wavfile>> THEN cur.outcome ELSE outcomeOf[c]]
    /\ Goto("files")
    /\ UNCHANGED <<disk, args, lang2token, target_sr, processed_files, speaker_names,
                   total_files, sIdx, wav_files, warned, runs, startManifest, force,
                   visited, succeeded, transcribed, written, killedAt, prevOrder,
                   recorded, fresh>>
    /\ UNCHANGED other

\* lines 113-114, after process_wav_file has returned.
Count ==
    /\ pc = "count"
    /\ processed_count' = processed_count + 1
    /\ i' = i + 1
    /\ cur' = NoCall
    /\ outcomeOf' = [c \in DOMAIN outcomeOf \cup {<<cur.speaker, cur.wavfile>>} |->
                        IF c = <<cur.speaker, cur.wavfile>> THEN cur.outcome ELSE outcomeOf[c]]
    /\ Goto("files")
    /\ UNCHANGED <<disk, args, lang2token, target_sr, processed_files, speaker_names,
                   total_files, sIdx, wav_files, warned, runs, startManifest, force,
                   visited, succeeded, transcribed, written, killedAt, prevOrder,
                   recorded, fresh>>
    /\ UNCHANGED other

\* lines 116-117 and the end of the script.
Finish ==
    /\ pc = "end"
    /\ warned' = (processed_count = 0)
    /\ pc' = "done"
    /\ exit_code' = 0
    /\ Gone
    /\ outcomeOf' = NoOutcomes
    /\ UNCHANGED <<disk, stderr, runs, startManifest, force, visited, succeeded,
                   transcribed, written, killedAt, recorded, fresh>>
    /\ UNCHANGED other

EndRun == Finish /\ prevOrder' = <<>>

\* The same step, with the listings of the run kept for the next run to be
\* compared with.
EndRunNoted == Finish /\ prevOrder' = visited

\* The run is killed from outside, at any point.
Halt ==
    /\ pc \notin Stopped
    /\ pc' = "killed"
    /\ killedAt' = pc
    /\ exit_code' = 137
    /\ Gone
    /\ outcomeOf' = NoOutcomes
    /\ UNCHANGED <<disk, stderr, warned, runs, startManifest, force, visited, succeeded,
                   transcribed, written, recorded, fresh>>
    /\ UNCHANGED other

Kill == Halt /\ prevOrder' = <<>>

\* The same step, with the listings of the killed run kept for the run that
\* is started again.
KillNoted == Halt /\ prevOrder' = visited

-----------------------------------------------------------------------------
\* process_wav_file, lines 37-63, with transcribe_one, lines 20-35

loopVars == <<args, lang2token, target_sr, processed_files, speaker_names, total_files,
              processed_count, sIdx, wav_files, i, warned>>

\* The outcomes of a call that leave no entry although the file was tried.
FailureOutcomes == {"too_long", "error", "transcribe_failed", "unsupported"}

\* A return of process_wav_file with the given outcome.
Return(outcome) ==
    /\ cur' = [cur EXCEPT !.outcome = outcome]
    /\ Goto("count")

\* Mutant of Caught: the handler sits outside the loops and ends the batch.
CaughtOutsideLoop ==
    /\ cur' = [cur EXCEPT !.outcome = "error"]
    /\ Goto("end")

\* lines 62-63: an exception of the try block is caught and logged.
Caught == Return("error")

\* Mutant of AlreadyProcessed: the gate never skips.
AlreadyProcessedNever(save_path, processed) == FALSE

\* The resumption gate, line 39.
AlreadyProcessed(save_path, processed) == save_path \in processed

\* lines 39-41
Gate ==
    /\ pc = "gate"
    /\ IF AlreadyProcessed(cur.save_path, processed_files)
       THEN Return("already")
       ELSE Goto("load") /\ UNCHANGED cur
    /\ UNCHANGED <<disk, loopVars, history>>
    /\ UNCHANGED other

\* lines 43-46: load, downmix and resample; each may raise.
LoadAudio ==
    /\ pc = "load"
    /\ \/ \E shape \in AudioShapes :
             LET frames == Resample(shape[2], shape[1], target_sr)
             IN  /\ cur' = [cur EXCEPT !.sr = shape[1],
                                       !.frames = frames,
                                       !.loaded = TRUE,
                                       !.within = (frames <= DurationCeiling * target_sr)]
                 /\ Goto("duration")
       \/ Caught
       \/ \E shape \in AudioShapes : shape[1] # target_sr /\ Caught
    /\ UNCHANGED <<disk, loopVars, history>>
    /\ UNCHANGED other

\* Mutant of CheckDuration: the audio is saved before its duration is checked.
CheckDurationAfterSave ==
    /\ pc = "duration"
    /\ saved' = [p \in DOMAIN saved \cup {cur.save_path} |->
                    IF p = cur.save_path THEN <<cur.speaker, cur.wavfile>> ELSE saved[p]]
    /\ written' = written \cup {cur.save_path}
    /\ IF TooLong(cur.frames, target_sr)
       THEN Return("too_long")
       ELSE Goto("save") /\ UNCHANGED cur
    /\ UNCHANGED <<manifestExists, manifest, loopVars, runs, startManifest, force, visited,
                   succeeded, transcribed, killedAt, prevOrder, recorded, fresh, outcomeOf,
                   other>>

\* lines 47-50
CheckDuration ==
    /\ pc = "duration"
    /\ IF TooLong(cur.frames, target_sr)
       THEN Return("too_long")
       ELSE Goto("save") /\ UNCHANGED cur
    /\ UNCHANGED <<disk, loopVars, history>>
    /\ UNCHANGED other

\* line 51: the processed audio is written to save_path, or the write raises.
\* `wav` and `sr` are not read after this line and are dropped from the state.
SaveAudio ==
    /\ pc = "save"
    /\ \/ /\ saved' = [p \in DOMAIN saved \cup {cur.save_path} |->
                          IF p = cur.save_path THEN <<cur.speaker, cur.wavfile>> ELSE saved[p]]
          /\ written' = written \cup {cur.save_path}
          /\ cur' = [cur EXCEPT !.sr = 0, !.frames = 0]
          /\ Goto("transcribe")
       \/ /\ cur' = [cur EXCEPT !.sr = 0, !.frames = 0, !.outcome = "error"]
          /\ Goto("count")
          /\ UNCHANGED <<saved, written>>
    /\ UNCHANGED <<manifestExists, manifest, loopVars, runs, startManifest, force, visited,
                   succeeded, transcribed, killedAt, prevOrder, recorded, fresh, outcomeOf>>
    /\ UNCHANGED other

\* lines 52-54 and transcribe_one: the language and the text of the audio at
\* save_path, or (None, None) when anything in transcribe_one raises.
Transcribe ==
    /\ pc = "transcribe"
    /\ transcribed' = transcribed \cup {cur.save_path}
    /\ \/ \E lang \in Langs :
             /\ cur' = [cur EXCEPT !.lang = lang, !.text = Transcript(saved[cur.save_path])]
             /\ Goto("language")
       \/ Return("transcribe_failed")
    /\ UNCHANGED <<disk, loopVars, runs, startManifest, force, visited, succeeded,
                   written, killedAt, prevOrder, recorded, fresh, outcomeOf>>
    /\ UNCHANGED other

\* The language gate, line 55.
Supported(lang, tokens) == lang \in DOMAIN tokens

\* lines 55-57
LanguageGate ==
    /\ pc = "language"
    /\ IF Supported(cur.lang, lang2token)
       THEN Goto("append") /\ UNCHANGED cur
       ELSE Return("unsupported")
    /\ UNCHANGED <<disk, loopVars, history>>
    /\ UNCHANGED other

\* Mutants of AppendLine: the write stays in a buffer that is never flushed;
\* the file is opened with 'w'.
AppendLineBuffered(lines, line) == lines

AppendLineTruncating(lines, line) == <<line>>

\* The file after open(output_file, 'a') and one write, lines 59-60.
AppendLine(lines, line) == Append(lines, line)

\* lines 58-60
AppendEntry ==
    /\ pc = "append"
    /\ manifest' = AppendLine(manifest, ManifestLine(cur.save_path, cur.speaker,
                                                     lang2token[cur.lang], cur.text))
    /\ manifestExists' = TRUE
    /\ fresh' = fresh \cup {<<cur.speaker, cur.wavfile>>}
    /\ Goto("processed")
    /\ UNCHANGED <<saved, loopVars, cur, runs, startManifest, force, visited, succeeded,
                   transcribed, written, killedAt, prevOrder, recorded, outcomeOf>>
    /\ UNCHANGED other

\* line 61 and the return that follows it.
PrintProcessed ==
    /\ pc = "processed"
    /\ succeeded' = Append(succeeded, ManifestLine(cur.save_path, cur.speaker,
                                                   lang2token[cur.lang], cur.text))
    /\ Return("recorded")
    /\ UNCHANGED <<disk, loopVars, runs, startManifest, force, visited, transcribed,
                   written, killedAt, prevOrder, recorded, fresh, outcomeOf>>
    /\ UNCHANGED other

-----------------------------------------------------------------------------

Steps ==
    \/ StartRun
    \/ ParseArgs
    \/ SelectLanguages
    \/ CheckCuda
    \/ LoadConfig
    \/ LoadProcessed
    \/ ListSpeakers
    \/ NextSpeaker
    \/ NextFile
    \/ Gate
    \/ LoadAudio
    \/ CheckDuration
    \/ SaveAudio
    \/ Transcribe
    \/ LanguageGate
    \/ AppendEntry
    \/ PrintProcessed
    \/ Count

Next == Steps \/ Kill \/ EndRun

Spec == Init /\ [][Next]_vars

\* The steps of a run that is under way: the interpreter goes on to the next
\* statement, and every call of a collaborator returns or raises.
Proceed ==
    \/ ParseArgs
    \/ SelectLanguages
    \/ CheckCuda
    \/ LoadConfig
    \/ LoadProcessed
    \/ ListSpeakers
    \/ NextSpeaker
    \/ NextFile
    \/ Gate
    \/ LoadAudio
    \/ CheckDuration
    \/ SaveAudio
    \/ Transcribe
    \/ LanguageGate
    \/ AppendEntry
    \/ PrintProcessed
    \/ Count
    \/ EndRun

\* The files an earlier run may have recorded: the first it listed under
\* SpeakerA or under SpeakerB.
EarlierSources == {<<SpeakerA, <<"x", ".wav">>>>, <<SpeakerB, <<"z", ".wav">>>>}

\* The save_path and the line that run gave the file.
EarlierPath(c) ==
    Join(Join(IF c[1] = SpeakerA THEN InDir ELSE OtherDir, c[1]), ProcessedName(0))

EarlierLine(c) == ManifestLine(EarlierPath(c), c[1], "[ZH]", Transcript(c))

\* The state a run starts from: no manifest, or the manifest and the
\* processed audio an earlier run left.
InitResumed ==
    /\ \E earlier \in SUBSET EarlierSources :
          /\ Cardinality(earlier) <= 1
          /\ manifestExists = (earlier # {})
          /\ manifest = IF earlier = {} THEN <<>>
                        ELSE <<EarlierLine(CHOOSE c \in earlier : TRUE)>>
          /\ saved = [p \in {EarlierPath(c) : c \in earlier} |->
                        CHOOSE c \in earlier : EarlierPath(c) = p]
          /\ recorded = earlier
    /\ pc = "idle"
    /\ languages = ""
    /\ input_dir = <<>>
    /\ cuda = FALSE
    /\ lang2token = Lang2Token("")
    /\ target_sr = 0
    /\ processed_files = {}
    /\ speaker_names = <<>>
    /\ total_files = 0
    /\ processed_count = 0
    /\ sIdx = 0
    /\ wav_files = <<>>
    /\ i = 0
    /\ cur = NoCall
    /\ exit_code = -1
    /\ stderr = ""
    /\ warned = FALSE
    /\ runs = 0
    /\ startManifest = <<>>
    /\ force = FALSE
    /\ visited = <<>>
    /\ succeeded = <<>>
    /\ transcribed = {}
    /\ written = {}
    /\ killedAt = ""
    /\ prevOrder = <<>>
    /\ fresh = {}
    /\ outcomeOf = NoOutcomes
    /\ other = NoOther

\* The script is started once.
StartOnce == runs = 0 /\ StartRun

NextOnce == Proceed \/ Kill \/ StartOnce

\* One run of the program, from either state, that keeps running unless it
\* is killed.
SpecFair == InitResumed /\ [][NextOnce]_vars /\ WF_vars(Proceed)

\* A second instance of the script is started on the same input while the
\* run is under way, and reads its processed set (line 99).
OtherStart ==
    /\ pc \notin Stopped
    /\ other = NoOther
    /\ other' = [on |-> TRUE, dir |-> input_dir,
                 processed |-> LoadProcessedFiles(manifestExists, manifest), done |-> {}]
    /\ UNCHANGED <<disk, pc, args, lang2token, target_sr, processed_files, speaker_names,
                   total_files, processed_count, sIdx, wav_files, i, cur, exit_code, stderr,
                   warned, history>>

\* The second instance processes the file it lists at position n of a
\* speaker directory: its gate (line 39), the save (line 51) and the append
\* (lines 58-60).  What it skips or fails on leaves nothing behind.
OtherAppend ==
    /\ other.on
    /\ \E c \in Candidates(other.dir), n \in 0..(Cardinality(Candidates(other.dir)) - 1) :
          LET p == Join(Join(other.dir, c[1]), ProcessedName(n))
          IN  /\ \A d \in other.done : d[1] # c /\ d[2] # p
              /\ ~AlreadyProcessed(p, other.processed)
              /\ saved' = [q \in DOMAIN saved \cup {p} |-> IF q = p THEN c ELSE saved[q]]
              /\ manifest' = AppendLine(manifest, ManifestLine(p, c[1], "[ZH]", Transcript(c)))
              /\ manifestExists' = TRUE
              /\ other' = [other EXCEPT !.done = @ \cup {<<c, p>>}]
    /\ UNCHANGED <<pc, args, lang2token, target_sr, processed_files, speaker_names,
                   total_files, processed_count, sIdx, wav_files, i, cur, exit_code, stderr,
                   warned, history>>

\* The second instance ends.
OtherEnd ==
    /\ other.on
    /\ other' = [other EXCEPT !.on = FALSE]
    /\ UNCHANGED <<disk, pc, args, lang2token, target_sr, processed_files, speaker_names,
                   total_files, processed_count, sIdx, wav_files, i, cur, exit_code, stderr,
                   warned, history>>

NextShared == Proceed \/ Kill \/ StartOnce \/ OtherStart \/ OtherAppend \/ OtherEnd

\* One run of the program, with a second instance writing to the same manifest.
SpecShared == InitResumed /\ [][NextShared]_vars

\* The same program, with the history of the previous run's listings.
NextTwice == Steps \/ Kill \/ EndRunNoted

SpecTwice == Init /\ [][NextTwice]_vars

\* The same program, with the history of a killed run's listings.
NextResume == Steps \/ KillNoted \/ EndRun

SpecResume == Init /\ [][NextResume]_vars

-----------------------------------------------------------------------------
\* Properties

\* The positions inside process_wav_file, and those between two calls of it.
InCall == {"gate", "load", "duration", "save", "transcribe", "language", "append",
           "processed", "count"}

BetweenCalls == {"files", "speakers", "end"}

\* The call at hand has written its line.
Appended == pc = "processed" \/ (pc = "count" /\ cur.outcome = "recorded")

\* The line the call at hand writes.
CurLine == ManifestLine(cur.save_path, cur.speaker, lang2token[cur.lang], cur.text)

\* C2: a run killed between the processing of two candidates leaves the
\* manifest holding exactly the entries present at startup followed by one
\* entry for each candidate that fully succeeded before the kill, in
\* processing order.
C2_CrashConsistent ==
    (pc = "killed" /\ killedAt \in BetweenCalls) => manifest = startManifest \o succeeded

\* C2 witness: the second run, started on a manifest that holds an entry, is
\* killed after its first candidate succeeded and before the second is tried.
C2_Witness ==
    /\ pc = "killed"
    /\ killedAt = "files"
    /\ Len(startManifest) >= 1
    /\ Len(succeeded) = 1
    /\ visited = <<visited[1]>>
    /\ visited[1][1] = SpeakerA

\* C3: while a call of process_wav_file is under way the manifest holds no
\* line of it before its append step, and a call that has appended its line
\* loaded and resampled the audio, found it at most 20.0 s long, saved it to
\* save_path, transcribed it and detected a language of the active map; the
\* lines of the earlier calls of the run are those of the calls that succeeded.
C3_OnlySucceeded ==
    pc \in InCall =>
       /\ ~Appended => manifest = startManifest \o succeeded
       /\ Appended =>
             /\ cur.loaded
             /\ cur.within
             /\ cur.save_path \in written
             /\ cur.save_path \in DOMAIN saved
             /\ saved[cur.save_path] = <<cur.speaker, cur.wavfile>>
             /\ cur.save_path \in transcribed
             /\ cur.text # <<>>
             /\ cur.lang \in DOMAIN lang2token
             /\ Len(manifest) = cur.before + 1
             /\ Last(manifest) = CurLine

\* C3 witness: the first entry of a run has just been appended, for audio
\* within the ceiling whose language was detected as Japanese.
C3_Witness ==
    /\ pc = "processed"
    /\ cur.within
    /\ cur.lang = "ja"
    /\ Len(manifest) = cur.before + 1
    /\ Len(succeeded) = 1

\* C4: a load, resample or save error, a transcription failure, an
\* unsupported language or an excess duration leaves the manifest as it was
\* when the call began, the call returns to the loop, and when the loops end
\* every candidate of the input has been passed to process_wav_file.
C4_FailuresNotFatal ==
    /\ (pc = "count" /\ cur.outcome \in FailureOutcomes) =>
          /\ Len(manifest) = cur.before
          /\ manifest = startManifest \o succeeded
    /\ (pc \in InCall /\ cur.outcome # "") => pc = "count"
    /\ pc = "end" =>
          /\ Range(visited) = Candidates(input_dir)
          /\ Len(visited) = TotalFiles(input_dir)
          /\ processed_count = TotalFiles(input_dir)

\* C4 witness: the loops have ended, the first candidate failed and the
\* second one was still processed and recorded.
C4_Witness ==
    /\ pc = "end"
    /\ processed_files = {}
    /\ Len(visited) = 2
    /\ Len(succeeded) = 1
    /\ FirstField(succeeded[1]) = {Join(Join(InDir, SpeakerA), ProcessedName(1))}

\* C5: at every point of a run the entries of the manifest at startup are a
\* prefix of the manifest, followed by the entries of the calls that
\* succeeded, in order; when the run completes the manifest is exactly that.
C5_AppendOnly ==
    /\ IsPrefix(startManifest, manifest)
    /\ IsPrefix(startManifest \o succeeded, manifest)
    /\ pc = "done" => manifest = startManifest \o succeeded

\* C5 witness: a run that started on a manifest with an entry has completed
\* and recorded one more.
C5_Witness ==
    /\ pc = "done"
    /\ Len(startManifest) >= 1
    /\ Len(succeeded) >= 1

\* C7: a candidate whose resampled audio is longer than 20.0 s gets no entry
\* and is rejected at the duration check, before anything is saved or
\* transcribed; a candidate of 20.0 s or less is never rejected as too long.
C7_DurationCeiling ==
    /\ (pc \in InCall /\ cur.loaded /\ ~cur.within) =>
          /\ pc \in {"duration", "count"}
          /\ pc = "count" => cur.outcome = "too_long"
          /\ manifest = startManifest \o succeeded
          /\ cur.save_path \notin written
          /\ cur.save_path \notin transcribed
    /\ cur.outcome = "too_long" => (cur.loaded /\ ~cur.within)

\* C7 witness: audio of one frame more than 20.0 s after resampling has been
\* rejected as too long.
C7_Witness ==
    /\ pc = "count"
    /\ cur.outcome = "too_long"
    /\ cur.sr # target_sr
    /\ cur.frames = DurationCeiling * target_sr + 1

\* The language sets of the three selectors.
ActiveSet(arg) ==
    IF arg = "CJE" THEN {"zh", "ja", "en"}
    ELSE IF arg = "CJ" THEN {"zh", "ja"}
    ELSE IF arg = "C" THEN {"zh"}
    ELSE {}

\* C8: under each selector, a candidate whose detected language is outside
\* the selector's set gets no entry and is rejected at the language gate; a
\* candidate whose detected language is in the set is never rejected as
\* unsupported.
C8_LanguageGate ==
    /\ (pc \in InCall /\ cur.lang # "" /\ cur.lang \notin ActiveSet(languages)) =>
          /\ pc \in {"language", "count"}
          /\ pc = "count" => cur.outcome = "unsupported"
          /\ manifest = startManifest \o succeeded
    /\ cur.outcome = "unsupported" => (cur.lang # "" /\ cur.lang \notin ActiveSet(languages))

\* C8 witness: under CJ a candidate detected as English has been rejected.
C8_Witness ==
    /\ pc = "count"
    /\ languages = "CJ"
    /\ cur.lang = "en"
    /\ cur.outcome = "unsupported"

\* The steps of __main__ after each of the three startup checks.
AfterLanguages == {"cuda", "config", "load_processed", "list"} \cup BetweenCalls \cup InCall

AfterCuda == AfterLanguages \ {"cuda"}

AfterListing == BetweenCalls \cup InCall

\* C9: a run whose language set is not CJE, CJ or C, that finds no compute
\* accelerator, or whose input directory does not exist, never gets past the
\* check; a run that exits does so with a non-zero status and a message,
\* with no candidate passed to process_wav_file, no audio written, no
\* transcription and the manifest as it was at startup.
C9_FatalPreconditions ==
    /\ pc \in AfterLanguages => languages \in {"CJE", "CJ", "C"}
    /\ pc \in AfterCuda => cuda
    /\ pc \in AfterListing => DirExists(input_dir)
    /\ pc = "exit" =>
          /\ exit_code # 0
          /\ stderr # ""
          /\ visited = <<>>
          /\ written = {}
          /\ transcribed = {}
          /\ manifest = startManifest

\* C9 witness: a run started on a manifest that holds an entry has exited on
\* the missing input directory.
C9_Witness ==
    /\ pc = "exit"
    /\ stderr = "FileNotFoundError"
    /\ exit_code = 1
    /\ Len(startManifest) >= 1

\* The first fields of the lines of a manifest.
FirstFields(lines) == UNION {FirstField(lines[k]) : k \in 1..Len(lines)}

\* The target paths the candidates of an input directory can be given.
TargetsOf(dir) ==
    {Join(Join(dir, c[1]), ProcessedName(n)) :
        c \in Candidates(dir), n \in 0..(Cardinality(Candidates(dir)) - 1)}

\* No element occurs twice in the sequence.
NoDuplicates(s) == \A a, b \in 1..Len(s) : s[a] = s[b] => a = b

\* C10, as claimed: a run that is given the force-reprocess flag, together
\* with valid options, an accelerator and an input whose targets are already
\* in the manifest, goes on to process those candidates: it does not end at
\* the reading of the command line.
C10_ForceReprocesses ==
    [][ ( /\ pc = "parse"
          /\ force
          /\ ValidLanguages(languages)
          /\ cuda
          /\ DirExists(input_dir)
          /\ TargetsOf(input_dir) \cap LoadProcessedFiles(manifestExists, manifest) # {} )
        => pc' # "exit" ]_vars

\* C10, amended: the resumption gate skips a candidate if and only if its
\* save_path is in the processed set, a skipped candidate is neither loaded,
\* saved nor transcribed, and no run that was given a force-reprocess flag
\* gets past the reading of the command line.
C10_GateByMembership ==
    /\ (pc \in InCall \ {"gate"}) =>
          (cur.outcome = "already" <=> cur.save_path \in processed_files)
    /\ cur.outcome = "already" =>
          /\ pc = "count"
          /\ ~cur.loaded
          /\ cur.save_path \notin written
          /\ cur.save_path \notin transcribed
          /\ manifest = startManifest \o succeeded
    /\ (pc \notin Stopped \cup {"parse"}) => ~force

\* C10 witness: a candidate whose save_path is in the processed set has been
\* skipped by the gate.
C10_Witness ==
    /\ pc = "count"
    /\ cur.outcome = "already"
    /\ cur.save_path \in processed_files
    /\ cur.wavfile = <<"y", ".wav">>

\* C6, as claimed: whatever the order of the listings, a source WAV file is
\* skipped as already done if and only if an earlier run recorded its
\* transcript, and no source file is passed to process_wav_file twice in a run.
C6_ExactlyOnceBySource ==
    /\ (pc \in InCall \ {"gate"}) =>
          (cur.outcome = "already" <=> <<cur.speaker, cur.wavfile>> \in recorded)
    /\ NoDuplicates(visited)

\* C6, amended: in every run each source WAV file of the input is passed to
\* process_wav_file exactly once, with the save_path processed_<i>.wav of its
\* position i in this run's listing, and it is skipped as already done if and
\* only if that save_path is the first field of a line the manifest held when
\* the run started.
C6_ExactlyOnceByTarget ==
    /\ NoDuplicates(visited)
    /\ pc = "end" =>
          /\ Range(visited) = Candidates(input_dir)
          /\ Len(visited) = Cardinality(Candidates(input_dir))
    /\ pc \in InCall =>
          /\ cur.wavfile = wav_files[i + 1]
          /\ cur.speaker = speaker_names[sIdx]
          /\ Last(visited) = <<cur.speaker, cur.wavfile>>
          /\ cur.save_path = Join(Join(input_dir, cur.speaker), ProcessedName(i))
    /\ (pc \in InCall \ {"gate"}) =>
          (cur.outcome = "already" <=> cur.save_path \in FirstFields(startManifest))

\* C6 witness: a source file whose transcript no run has recorded is skipped
\* as already done, because its position in this run's listing is that of a
\* recorded save_path.
C6_Witness ==
    /\ pc = "count"
    /\ cur.outcome = "already"
    /\ <<cur.speaker, cur.wavfile>> \notin recorded
    /\ cur.save_path \in FirstFields(startManifest)

\* C1, as claimed: when a run has completed and the script runs again over
\* the same input with the same listings, the second run appends no line
\* whose path field the manifest already held, the manifest holds no path
\* field twice, and transcribe_one is not called on a path the manifest held
\* when the second run started.
C1_Idempotent ==
    ( /\ pc \notin Stopped
      /\ prevOrder # <<>>
      /\ Range(prevOrder) = Candidates(input_dir)
      /\ IsPrefix(visited, prevOrder) )
    => /\ \A k \in (Len(startManifest) + 1)..Len(manifest) :
             FirstField(manifest[k]) \cap FirstFields(startManifest) = {}
       /\ \A j, k \in 1..Len(manifest) :
             FirstField(manifest[j]) = FirstField(manifest[k]) => j = k
       /\ transcribed \cap FirstFields(startManifest) = {}

\* The five outcomes of the outcome state machine, and the sixth the handler
\* of lines 62-63 gives a call.
FiveOutcomes == {"already", "too_long", "unsupported", "transcribe_failed", "recorded"}

SixOutcomes == FiveOutcomes \cup {"error"}

\* The candidates whose call has returned and been counted.
Counted == IF pc \in InCall THEN Range(SubSeq(visited, 1, Len(visited) - 1)) ELSE Range(visited)

\* Every call returns with exactly one outcome of the set, which tells whether
\* the call appended a line; every candidate visited has its outcome, and at
\* the end of the loops every candidate of the input has one.
OutcomesWithin(outcomes) ==
    /\ (pc \in InCall \ {"count"}) => cur.outcome = ""
    /\ pc = "count" =>
          /\ cur.outcome \in outcomes
          /\ Len(manifest) = cur.before + (IF cur.outcome = "recorded" THEN 1 ELSE 0)
    /\ pc \in AfterListing =>
          /\ DOMAIN outcomeOf = Counted
          /\ \A c \in DOMAIN outcomeOf : outcomeOf[c] \in outcomes
    /\ pc = "end" => DOMAIN outcomeOf = Candidates(input_dir)

\* While the run goes on, the outcome a candidate has reached stays as it is.
OutcomeStable ==
    (pc \notin Stopped /\ pc' \notin Stopped) =>
        \A c \in DOMAIN outcomeOf : c \in DOMAIN outcomeOf' /\ outcomeOf'[c] = outcomeOf[c]

\* Each call under way returns unless the run is killed.
CallReturns == (pc \in InCall \ {"count"}) ~> (pc \in {"count", "killed"})

\* The loops end unless the run is killed.
LoopsEnd == (pc \in AfterListing) ~> (pc \in {"end", "killed"})

\* The run terminates once the loops have ended.
RunTerminates == (pc = "end") ~> (pc \in {"done", "killed"})

\* C11, as claimed: in a run that is not killed every candidate eventually
\* reaches exactly one of the five outcomes skipped-already-done,
\* skipped-too-long, skipped-unsupported-language, skipped-transcription-error
\* and recorded, the outcome reached does not change for the rest of the run,
\* and the run terminates after the last candidate has reached its outcome.
C11_FiveOutcomes ==
    /\ []OutcomesWithin(FiveOutcomes)
    /\ [][OutcomeStable]_vars
    /\ CallReturns
    /\ LoopsEnd
    /\ RunTerminates

\* C11, amended: the same with six outcomes, the sixth being the call whose
\* load, downmix, resample or save raised and was caught at lines 62-63.
C11_SixOutcomes ==
    /\ []OutcomesWithin(SixOutcomes)
    /\ [][OutcomeStable]_vars
    /\ CallReturns
    /\ LoopsEnd
    /\ RunTerminates

\* C11 witness: the loops have ended with one candidate skipped on a caught
\* processing error and the other recorded.
C11_Witness ==
    /\ pc = "end"
    /\ DOMAIN outcomeOf = Candidates(InDir)
    /\ outcomeOf[<<SpeakerA, <<"x", ".wav">>>>] = "error"
    /\ outcomeOf[<<SpeakerA, <<"y", ".wav">>>>] = "recorded"

\* The Language Token Map.
TokenOf(lang) == IF lang = "zh" THEN "[ZH]" ELSE IF lang = "ja" THEN "[JA]" ELSE "[EN]"

\* The two source files of SpeakerA, and a run over InDir that started
\* without manifest entries and has ended with the first recorded and the
\* second found too long.
FileX == <<SpeakerA, <<"x", ".wav">>>>

FileY == <<SpeakerA, <<"y", ".wav">>>>

ExampleRun ==
    /\ pc = "end"
    /\ input_dir = InDir
    /\ startManifest = <<>>
    /\ DOMAIN outcomeOf = {FileX, FileY}
    /\ outcomeOf[FileX] = "recorded"
    /\ outcomeOf[FileY] = "too_long"

\* The line of the call at hand is save_path|speaker|TOKEN text TOKEN, with
\* save_path the processed_<i>.wav of the speaker directory for the position
\* i of the file in the filtered listing, speaker the name of the directory,
\* text the transcript of the audio and TOKEN that of the detected language.
EntryOfCall ==
    /\ Last(manifest) = cur.save_path \o <<"|">> \o cur.speaker \o <<"|", TokenOf(cur.lang)>>
                            \o cur.text \o <<TokenOf(cur.lang), "\n">>
    /\ cur.save_path = input_dir \o <<"/">> \o cur.speaker
                            \o <<"/", "processed_", Str(i), ".wav">>
    /\ cur.speaker = speaker_names[sIdx]
    /\ cur.wavfile = wav_files[i + 1]
    /\ cur.text = Transcript(<<cur.speaker, cur.wavfile>>)
    /\ cur.lang \in ActiveSet(languages)

\* C12, as claimed: every recorded candidate's line has that content, and a
\* speaker directory holding one file that is recorded and one of more than
\* 20 s yields exactly one new line, for processed_0.wav.
C12_EntryAtIndexZero ==
    /\ Appended => EntryOfCall
    /\ ExampleRun =>
          /\ Len(manifest) = 1
          /\ FirstField(manifest[1]) = {Join(Join(InDir, SpeakerA), ProcessedName(0))}

\* C12, amended: the same, the one new line being for processed_0.wav when
\* the recorded file is listed first and for processed_1.wav when the file
\* that is too long is listed first.
C12_EntryContent ==
    /\ Appended => EntryOfCall
    /\ ExampleRun =>
          /\ Len(manifest) = 1
          /\ \E n \in {0, 1} :
                /\ visited[n + 1] = FileX
                /\ FirstField(manifest[1]) = {Join(Join(InDir, SpeakerA), ProcessedName(n))}
                /\ \E lang \in ActiveSet(languages) :
                      manifest[1] = <<"voices", "/", "ann", "/", "processed_", Str(n), ".wav",
                                      "|", "ann", "|", TokenOf(lang), "words-of-", "x",
                                      TokenOf(lang), "\n">>

\* C12 witness: the file that is too long was listed first, and the one line
\* of the manifest is that of the other file, for processed_1.wav tagged [EN].
C12_Witness ==
    /\ ExampleRun
    /\ visited = <<FileY, FileX>>
    /\ manifest = << <<"voices", "/", "ann", "/", "processed_", "1", ".wav", "|", "ann", "|",
                       "[EN]", "words-of-", "x", "[EN]", "\n">> >>

\* The lines of a manifest written for the target path p.
LinesFor(lines, p) == {k \in 1..Len(lines) : IsPrefix(p \o <<"|">>, lines[k])}

\* A run started again after a killed run, over the same input and with its
\* listings in the same order as far as the killed run got.
Restarted ==
    /\ pc \notin Stopped
    /\ prevOrder # <<>>
    /\ Range(prevOrder) \subseteq Candidates(input_dir)
    /\ (IsPrefix(visited, prevOrder) \/ IsPrefix(prevOrder, visited))

\* The candidates of the run that have an entry when their call has returned.
WithEntry == {c \in DOMAIN outcomeOf : outcomeOf[c] \in {"already", "recorded"}}

\* The run at hand processes only the candidates whose target path has no
\* entry, skips the others, leaves no target path with two entries, and ends
\* with the startup entries followed by those of the candidates it recorded,
\* one entry for each candidate that was skipped as done or recorded.
ResumesCleanly ==
    /\ (pc \in InCall \ {"gate"}) =>
          (cur.outcome = "already" <=> LinesFor(startManifest, cur.save_path) # {})
    /\ \A p \in TargetsOf(input_dir) : Cardinality(LinesFor(manifest, p)) <= 1
    /\ pc = "end" =>
          /\ manifest = startManifest \o succeeded
          /\ Cardinality({p \in TargetsOf(input_dir) : LinesFor(manifest, p) # {}})
                = Cardinality(WithEntry)

\* C13: a run started again after a kill, on the same input with the same
\* listing order, invokes processing only for the candidates that have no
\* manifest entry, and when it completes the manifest holds the entries an
\* uninterrupted run would have produced, each exactly once.
C13_ResumeEquivalent == Restarted => ResumesCleanly

\* The target paths of both inputs.
AllTargets == TargetsOf(InDir) \cup TargetsOf(OtherDir)

\* No second instance of the script has written to the manifest.
SingleWriter == other.done = {}

\* The processed set is read from the manifest once, at line 99.
ReadAtStartup ==
    (pc = "load_processed" /\ pc' = "list") => processed_files' = FirstFields(manifest)

\* After that the set stays as it is, whatever is appended to the manifest.
NeverRefreshed ==
    (pc \in AfterListing /\ pc' \in AfterListing) => processed_files' = processed_files

\* Every gate decision of the run is taken on that set.
GateOnSnapshot ==
    (pc \in InCall \ {"gate"}) => (cur.outcome = "already" <=> cur.save_path \in processed_files)

\* No target path has two entries.
NoPathTwice == \A p \in AllTargets : Cardinality(LinesFor(manifest, p)) <= 1

\* C14: the set the gate consults is the set of first fields of the manifest
\* as read at startup; lines appended during the run, by this run or by a
\* second instance, never change it or a gate decision; and as long as there
\* is a single writer no processed path is appended twice.
C14_StartupSnapshot ==
    /\ [][ReadAtStartup]_vars
    /\ [][NeverRefreshed]_vars
    /\ []GateOnSnapshot
    /\ [](SingleWriter => NoPathTwice)

\* Two instances running at the same time over the same input have both
\* appended an entry for the same target path.
BothAppended ==
    /\ input_dir = InDir
    /\ other.on
    /\ pc = "processed"
    /\ \E d \in other.done : d[2] = cur.save_path
    /\ Cardinality(LinesFor(manifest, cur.save_path)) = 2

\* A candidate skipped as already done or rejected as too long has no file
\* written at its save_path and is not transcribed.
NothingOnSkip ==
    (pc = "count" /\ cur.outcome \in {"already", "too_long"}) =>
        /\ cur.save_path \notin written
        /\ cur.save_path \notin transcribed

\* transcribe_one is called on a save_path only after the processed audio of
\* the candidate was saved there.
SavedBeforeTranscribed ==
    /\ transcribed \subseteq written
    /\ (pc \in {"transcribe", "language", "append", "processed"}) =>
          /\ cur.save_path \in written
          /\ cur.save_path \in DOMAIN saved
          /\ saved[cur.save_path] = <<cur.speaker, cur.wavfile>>

\* Every line of the manifest was written for a save_path that holds processed
\* audio, and every line this run appended for a save_path this run saved.
EntriesNameSavedFiles ==
    /\ \A k \in 1..Len(manifest) : \E p \in DOMAIN saved : k \in LinesFor(manifest, p)
    /\ \A k \in (Len(startManifest) + 1)..Len(manifest) :
          \E p \in written : k \in LinesFor(manifest, p)

Tokens == {"[ZH]", "[JA]", "[EN]"}

\* The line k of the manifest holds the transcript of the audio now at p.
HoldsTranscriptOf(k, p) ==
    \E tok \in Tokens :
        manifest[k] = p \o <<"|">> \o saved[p][1] \o <<"|", tok>> \o Transcript(saved[p])
                        \o <<tok, "\n">>

\* C16: over any sequence of runs, with any listing order in each, a run
\* writes no file at a path that had an entry in the manifest when the run
\* started, and the audio at the path of each entry is the audio whose
\* transcript the entry holds.
C16_NeverOverwritten ==
    /\ \A p \in written : LinesFor(startManifest, p) = {}
    /\ \A p \in DOMAIN saved : \A k \in LinesFor(manifest, p) : HoldsTranscriptOf(k, p)

\* Every file the run was given was rejected as too long or as being in an
\* unsupported language.
AllRejected == \A c \in DOMAIN outcomeOf : outcomeOf[c] \in {"too_long", "unsupported"}

\* C17: a run that finishes without having recorded any entry, because every
\* audio file it was given was too long or in an unsupported language,
\* prints the warning of line 117; a run that recorded at least one entry
\* does not print it.
C17_WarningOnNoEntry ==
    [][ (pc = "end" /\ pc' = "done") =>
           /\ (succeeded = <<>> /\ AllRejected) => warned'
           /\ succeeded # <<>> => ~warned' ]_vars

====
